---- MODULE Spec2Model ----
(***************************************************************************)
(* A model of blosc/memcopy.h: the chunked copy kernel (copy_bytes,        *)
(* set_bytes, chunk_memcpy, chunk_memcpy_16, byte_memset, chunk_memset,    *)
(* chunk_copy, fast_copy, safe_copy).                                      *)
(*                                                                         *)
(* One call runs at a time.  pc is the routine (or loop head) the call is  *)
(* in; out, from, dist, len are that routine's parameters and locals.      *)
(* Every call between the routines is a tail call (return f(...)), so a    *)
(* call is modelled by moving pc to the callee with its arguments.         *)
(* mem is the byte memory and written the set of addresses stored to       *)
(* since the call started.  The three build switches are fixed at Init.    *)
(***************************************************************************)
EXTENDS Integers, FiniteSets, Sequences, TLC

VARIABLES
    pc,            \* routine / loop head being executed, or "done" / "abort"
    out, from,     \* the cursors of the routine being executed
    dist, len,     \* its dist and len (len is the chunk count inside the bulk loops)
    mem,           \* the byte memory
    written,       \* addresses stored to since the entry point was called
    args,          \* the entry point and the arguments it was called with
    unaligned_ok,  \* UNALIGNED_OK is defined
    sse2,          \* __SSE2__ is defined
    ndebug         \* NDEBUG is defined: assert() expands to nothing

vars == <<pc, out, from, dist, len, mem, written, args, unaligned_ok, sse2, ndebug>>

(***************************************************************************)
(* Bounds of the model.                                                    *)
(***************************************************************************)
MaxLen == 72        \* largest len given to chunk_copy / byte_memset
MaxDist == 17       \* largest dist given to chunk_copy
MaxCopyLen == 130   \* largest len given to fast_copy / safe_copy
MaxDelta == 17      \* largest |from - out| given to fast_copy / safe_copy
MaxGap == 1         \* largest gap between disjoint source and destination

(***************************************************************************)
(* Program constants.                                                      *)
(***************************************************************************)
SzU64 == 8          \* sizeof(uint64_t)
SzM128 == 16        \* sizeof(__m128i)
ShortLimit == 8     \* copy_bytes / set_bytes: assert(len < 8)
Unroll == 8         \* the bulk loops are unrolled 8 times

\* Unsigned subtraction a - b.  The difference wraps modulo 2^32 when b > a.
\* TLC's integers end at 2^31 - 1, so UWrap stands for every wrapped
\* difference: a value above every length and address of the model.
UWrap == (2 ^ 30 - 1) * 2 + 1
USub(a, b) == IF a >= b THEN a - b ELSE UWrap

Max(a, b) == IF a >= b THEN a ELSE b
Abs(x) == IF x < 0 THEN -x ELSE x

(***************************************************************************)
(* Memory layout of the model: the destination cursor of every call is     *)
(* OutBase, with room before it for the farthest source / pattern and room *)
(* after it for the longest run, a following source, and one vector of     *)
(* slack.                                                                  *)
(***************************************************************************)
OutBase == Max(Max(MaxDist, MaxDelta), MaxLen + MaxGap)
MemSize == OutBase + Max(2 * MaxLen + MaxGap, MaxCopyLen + MaxDelta) + SzM128
Addr == 0 .. (MemSize - 1)
Byte == 0 .. 255

\* Initial contents: pairwise different bytes (MemSize <= 256), the byte just
\* before the destination cursor being 0x7A.  The routines only move bytes, so
\* the value of a byte after a call names the address it was copied from.
InitMem == [a \in Addr |-> (a - (OutBase - 1) + 122) % 256]

(***************************************************************************)
(* Loads and stores.  A machine state m is [mem, wr].                      *)
(***************************************************************************)
MachineState == [mem : [Addr -> Int], wr : SUBSET Int]

\* MEMCPY(&chunk, from, n); MEMCPY(out, &chunk, n): all n bytes are loaded
\* before any is stored.
LoadStore(m, o, f, n) ==
    [mem |-> [a \in Addr |-> IF a >= o /\ a < o + n THEN m.mem[f + (a - o)] ELSE m.mem[a]],
     wr  |-> m.wr \cup (o .. (o + n - 1))]

\* MEMSET(out, c, n)
MEMSET(m, o, c, n) ==
    [mem |-> [a \in Addr |-> IF a >= o /\ a < o + n THEN c ELSE m.mem[a]],
     wr  |-> m.wr \cup (o .. (o + n - 1))]

copy_1_bytes(m, o, f) ==
    [mem |-> [m.mem EXCEPT ![o] = m.mem[f]], wr |-> m.wr \cup {o}]
copy_2_bytes(m, o, f) == LoadStore(m, o, f, 2)
copy_3_bytes(m, o, f) == copy_2_bytes(copy_1_bytes(m, o, f), o + 1, f + 1)
copy_4_bytes(m, o, f) == LoadStore(m, o, f, 4)
copy_5_bytes(m, o, f) == copy_4_bytes(copy_1_bytes(m, o, f), o + 1, f + 1)
copy_6_bytes(m, o, f) == copy_4_bytes(copy_2_bytes(m, o, f), o + 2, f + 2)
copy_7_bytes(m, o, f) == copy_4_bytes(copy_3_bytes(m, o, f), o + 3, f + 3)
copy_8_bytes(m, o, f) == LoadStore(m, o, f, SzU64)
copy_16_bytes(m, o, f) == LoadStore(m, o, f, SzM128)

\* while (len--) { *out++ = *from++; }   and   for (; len; --len) *out++ = *from++;
\* x is <<m, out, from, len>>.  len iterations are the first len \div 2
\* iterations followed by the remaining ones.  (The loops are functions: a
\* function's argument is evaluated before the function is applied, which
\* keeps the evaluation shallow.)
byte_loop_fn[x \in MachineState \X Int \X Int \X Nat] ==
    LET m == x[1]
        o == x[2]
        f == x[3]
        n == x[4]
        h == n \div 2
    IN  IF n = 0 THEN m
        ELSE IF n = 1 THEN copy_1_bytes(m, o, f)
        ELSE byte_loop_fn[<<byte_loop_fn[<<m, o, f, h>>], o + h, f + h, n - h>>]

byte_loop(m, o, f, n) == byte_loop_fn[<<m, o, f, n>>]

\* n times: out = copy_<sz>_bytes(out, from); from += sz;
\* x is <<m, out, from, n, sz>>.
copy_chunks_fn[x \in MachineState \X Int \X Int \X Nat \X Nat] ==
    LET m == x[1]
        o == x[2]
        f == x[3]
        n == x[4]
        sz == x[5]
    IN  IF n = 0 THEN m
        ELSE copy_chunks_fn[<<LoadStore(m, o, f, sz), o + sz, f + sz, n - 1, sz>>]

copy_chunks(m, o, f, n, sz) == copy_chunks_fn[<<m, o, f, n, sz>>]

\* n times: MEMSET(out, c, sz); out += sz;
\* x is <<m, out, c, n, sz>>.
set_chunks_fn[x \in MachineState \X Int \X Int \X Nat \X Nat] ==
    LET m == x[1]
        o == x[2]
        c == x[3]
        n == x[4]
        sz == x[5]
    IN  IF n = 0 THEN m
        ELSE set_chunks_fn[<<MEMSET(m, o, c, sz), o + sz, c, n - 1, sz>>]

set_chunks(m, o, c, n, sz) == set_chunks_fn[<<m, o, c, n, sz>>]

M == [mem |-> mem, wr |-> written]

\* The routine at pc returns cursor o, leaving the memory as in m.
Return(m, o) ==
    /\ pc' = "done"
    /\ out' = o
    /\ mem' = m.mem
    /\ written' = m.wr
    /\ UNCHANGED <<from, dist, len, args, unaligned_ok, sse2, ndebug>>

\* An assert() fails (NDEBUG not defined) after the stores recorded in m.
Abort(m) ==
    /\ pc' = "abort"
    /\ mem' = m.mem
    /\ written' = m.wr
    /\ UNCHANGED <<out, from, dist, len, args, unaligned_ok, sse2, ndebug>>

\* return callee(o, f, d, l), after the stores recorded in m.
TailCall(callee, m, o, f, d, l) ==
    /\ pc' = callee
    /\ out' = o
    /\ from' = f
    /\ dist' = d
    /\ len' = l
    /\ mem' = m.mem
    /\ written' = m.wr
    /\ UNCHANGED <<args, unaligned_ok, sse2, ndebug>>

(***************************************************************************)
(* copy_bytes(out, from, len)                                              *)
(***************************************************************************)
copy_bytes_switch(m, o, f, l) ==
    CASE l = 7 -> <<"done", copy_7_bytes(m, o, f), o + 7>>
      [] l = 6 -> <<"done", copy_6_bytes(m, o, f), o + 6>>
      [] l = 5 -> <<"done", copy_5_bytes(m, o, f), o + 5>>
      [] l = 4 -> <<"done", copy_4_bytes(m, o, f), o + 4>>
      [] l = 3 -> <<"done", copy_3_bytes(m, o, f), o + 3>>
      [] l = 2 -> <<"done", copy_2_bytes(m, o, f), o + 2>>
      [] l = 1 -> <<"done", copy_1_bytes(m, o, f), o + 1>>
      [] l = 0 -> <<"done", m, o>>
      [] OTHER -> <<IF ndebug THEN "done" ELSE "abort", m, o>>

copy_bytes ==
    /\ pc = "copy_bytes"
    /\ IF ~ndebug /\ ~(len < ShortLimit)
       THEN Abort(M)
       ELSE IF ~unaligned_ok
            THEN Return(byte_loop(M, out, from, len), out + len)
            ELSE LET r == copy_bytes_switch(M, out, from, len)
                 IN  IF r[1] = "abort" THEN Abort(r[2]) ELSE Return(r[2], r[3])

(***************************************************************************)
(* set_bytes(out, from, dist, len), UNALIGNED_OK variant.  Each operator   *)
(* yields <<how the routine goes on, machine state, out, len>>: "done"     *)
(* (return out), "abort" (an assert failed) or "copy_bytes" (return        *)
(* copy_bytes(out, from, len)).                                            *)
(***************************************************************************)
\* assert(cond) lets execution continue
Passes(cond) == ndebug \/ cond

\* case 1 of switch (dist)
set_bytes_case1(m, o, f, l) ==
    IF ~Passes(2 <= l /\ l <= 7) THEN <<"abort", m, o, l>>
    ELSE LET c == m.mem[f]
         IN  IF l \in 2 .. 7
             THEN <<"done", MEMSET(m, o, c, l), o + l, l>>
             ELSE \* default: assert(0); break;  then  return out;
                  <<IF ndebug THEN "done" ELSE "abort", m, o, l>>

\* case 2 of switch (dist); its default falls through into case 1
set_bytes_case2(m, o, f, l) ==
    IF ~Passes(3 <= l /\ l <= 7) THEN <<"abort", m, o, l>>
    ELSE LET m2 == copy_2_bytes(m, o, f)
             o2 == o + 2
         IN  CASE l = 7 -> <<"done", copy_1_bytes(copy_4_bytes(m2, o2, f), o2 + 4, f), o2 + 5, l>>
               [] l = 6 -> <<"done", copy_4_bytes(m2, o2, f), o2 + 4, l>>
               [] l = 5 -> <<"done", copy_1_bytes(copy_2_bytes(m2, o2, f), o2 + 2, f), o2 + 3, l>>
               [] l = 4 -> <<"done", copy_2_bytes(m2, o2, f), o2 + 2, l>>
               [] l = 3 -> <<"done", copy_1_bytes(m2, o2, f), o2 + 1, l>>
               [] OTHER -> IF ndebug THEN set_bytes_case1(m2, o2, f, l)
                           ELSE <<"abort", m2, o2, l>>

\* Mutant of set_bytes_case3: len 7 finishes with a 3-byte copy.
set_bytes_case3_short(m, o, f, l) ==
    IF ~Passes(4 <= l /\ l <= 7) THEN <<"abort", m, o, l>>
    ELSE LET m3 == copy_3_bytes(m, o, f)
             o3 == o + 3
         IN  CASE l = 7 -> <<"done", copy_3_bytes(m3, o3, f), o3 + 4, l>>
               [] l = 6 -> <<"done", copy_3_bytes(m3, o3, f), o3 + 3, l>>
               [] l = 5 -> <<"done", copy_2_bytes(m3, o3, f), o3 + 2, l>>
               [] l = 4 -> <<"done", copy_1_bytes(m3, o3, f), o3 + 1, l>>
               [] OTHER -> IF ndebug THEN set_bytes_case2(m3, o3, f, l)
                           ELSE <<"abort", m3, o3, l>>

\* case 3 of switch (dist); its default falls through into case 2
set_bytes_case3(m, o, f, l) ==
    IF ~Passes(4 <= l /\ l <= 7) THEN <<"abort", m, o, l>>
    ELSE LET m3 == copy_3_bytes(m, o, f)
             o3 == o + 3
         IN  CASE l = 7 -> <<"done", copy_4_bytes(m3, o3, f), o3 + 4, l>>
               [] l = 6 -> <<"done", copy_3_bytes(m3, o3, f), o3 + 3, l>>
               [] l = 5 -> <<"done", copy_2_bytes(m3, o3, f), o3 + 2, l>>
               [] l = 4 -> <<"done", copy_1_bytes(m3, o3, f), o3 + 1, l>>
               [] OTHER -> IF ndebug THEN set_bytes_case2(m3, o3, f, l)
                           ELSE <<"abort", m3, o3, l>>

set_bytes_case4(m, o, f, l) ==
    IF ~Passes(l = 5 \/ l = 6 \/ l = 7) THEN <<"abort", m, o, l>>
    ELSE <<"copy_bytes", copy_4_bytes(m, o, f), o + 4, USub(l, 4)>>

set_bytes_case5(m, o, f, l) ==
    IF ~Passes(l = 6 \/ l = 7) THEN <<"abort", m, o, l>>
    ELSE <<"copy_bytes", copy_5_bytes(m, o, f), o + 5, USub(l, 5)>>

set_bytes_case6(m, o, f, l) ==
    IF ~Passes(l = 7) THEN <<"abort", m, o, l>>
    ELSE <<"done", copy_1_bytes(copy_6_bytes(m, o, f), o + 6, f), o + 7, l>>

set_bytes_switch(m, o, f, d, l) ==
    IF d >= l THEN <<"copy_bytes", m, o, l>>
    ELSE CASE d = 6 -> set_bytes_case6(m, o, f, l)
           [] d = 5 -> set_bytes_case5(m, o, f, l)
           [] d = 4 -> set_bytes_case4(m, o, f, l)
           [] d = 3 -> set_bytes_case3(m, o, f, l)
           [] d = 2 -> set_bytes_case2(m, o, f, l)
           [] d = 1 -> set_bytes_case1(m, o, f, l)
           [] OTHER -> <<"done", m, o, l>>     \* no case matches: return out;

set_bytes ==
    /\ pc = "set_bytes"
    /\ IF ~ndebug /\ ~(len < ShortLimit)
       THEN Abort(M)
       ELSE IF ~unaligned_ok
            THEN Return(byte_loop(M, out, from, len), out + len)
            ELSE LET r == set_bytes_switch(M, out, from, dist, len)
                 IN  CASE r[1] = "abort" -> Abort(r[2])
                       [] r[1] = "done" -> Return(r[2], r[3])
                       [] r[1] = "copy_bytes" -> TailCall("copy_bytes", r[2], r[3], from, dist, r[4])

(***************************************************************************)
(* chunk_memcpy(out, from, len) and chunk_memcpy_16(out, from, len): the   *)
(* code before the while loop, one iteration of the loop, and the return.  *)
(***************************************************************************)
\* Mutant of chunk_memcpy_head: from is not advanced by rem.
chunk_memcpy_head_norem(sz, lp) ==
    LET rem == len % sz
        n   == len \div sz
        by8 == n % Unroll
        m1  == LoadStore(M, out, from, sz)
        m2  == copy_chunks(m1, out + rem, from, by8, sz)
    IN  IF ~ndebug /\ ~(len >= sz)
        THEN Abort(M)
        ELSE TailCall(lp, m2, out + rem + by8 * sz, from + by8 * sz, dist, n - by8)

\* The part before the while loop, for chunk size sz, going on at loop head lp.
chunk_memcpy_head(sz, lp) ==
    LET rem == len % sz
        n   == len \div sz
        by8 == n % Unroll
        m1  == LoadStore(M, out, from, sz)
        m2  == copy_chunks(m1, out + rem, from + rem, by8, sz)
    IN  IF ~ndebug /\ ~(len >= sz)
        THEN Abort(M)
        ELSE TailCall(lp, m2, out + rem + by8 * sz, from + rem + by8 * sz, dist, n - by8)

\* while (len) { 8 copies; len -= 8; }
chunk_memcpy_iter(sz) ==
    /\ len # 0
    /\ TailCall(pc, copy_chunks(M, out, from, Unroll, sz),
                out + Unroll * sz, from + Unroll * sz, dist, USub(len, Unroll))

chunk_memcpy ==
    /\ pc = "chunk_memcpy"
    /\ chunk_memcpy_head(SzU64, "chunk_memcpy_loop")

chunk_memcpy_loop ==
    /\ pc = "chunk_memcpy_loop"
    /\ chunk_memcpy_iter(SzU64)

chunk_memcpy_return ==
    /\ pc = "chunk_memcpy_loop"
    /\ len = 0
    /\ Return(M, out)

chunk_memcpy_16 ==
    /\ pc = "chunk_memcpy_16"
    /\ chunk_memcpy_head(SzM128, "chunk_memcpy_16_loop")

chunk_memcpy_16_loop ==
    /\ pc = "chunk_memcpy_16_loop"
    /\ chunk_memcpy_iter(SzM128)

chunk_memcpy_16_return ==
    /\ pc = "chunk_memcpy_16_loop"
    /\ len = 0
    /\ Return(M, out)

(***************************************************************************)
(* byte_memset(out, len)                                                   *)
(***************************************************************************)
\* Everything before the while loop.  Every case of switch (by8) falls
\* through into default: assert(0).
byte_memset ==
    /\ pc = "byte_memset"
    /\ LET sz  == SzU64
           f   == out - 1
           c   == mem[f]
           rem == len % sz
           n   == len \div sz
           by8 == n % Unroll
           m1  == MEMSET(M, out, c, sz)
           m2  == set_chunks(m1, out + rem, c, by8, sz)
       IN  IF ~ndebug /\ ~(len >= sz)
           THEN Abort(M)
           ELSE IF ~ndebug
                THEN Abort(m2)
                ELSE TailCall("byte_memset_loop", m2, out + rem + by8 * sz, f, dist, n - by8)

byte_memset_loop ==
    /\ pc = "byte_memset_loop"
    /\ len # 0
    /\ TailCall(pc, set_chunks(M, out, mem[from], Unroll, SzU64),
                out + Unroll * SzU64, from, dist, USub(len, Unroll))

byte_memset_return ==
    /\ pc = "byte_memset_loop"
    /\ len = 0
    /\ Return(M, out)

(***************************************************************************)
(* chunk_memset(out, from, dist, len)                                      *)
(***************************************************************************)
chunk_memset ==
    /\ pc = "chunk_memset"
    /\ IF dist >= len
       THEN TailCall("chunk_memcpy", M, out, from, dist, len)
       ELSE IF ~ndebug /\ ~(len >= SzU64)
            THEN Abort(M)
            ELSE TailCall("chunk_memset_loop", M, out, from, dist, len)

\* Mutant of chunk_memset_loop: the cursor advances by the chunk, not by dist.
chunk_memset_loop_stride ==
    /\ pc = "chunk_memset_loop"
    /\ dist < len /\ dist < SzU64
    /\ LET m1 == copy_8_bytes(M, out, from)
           o1 == out + SzU64
           l1 == USub(len, SzU64)
           d1 == dist + dist
       IN  IF l1 < SzU64
           THEN TailCall("set_bytes", m1, o1, from, d1, l1)
           ELSE TailCall("chunk_memset_loop", m1, o1, from, d1, l1)

\* Mutant of chunk_memset_loop: dist is not doubled.
chunk_memset_loop_nodouble ==
    /\ pc = "chunk_memset_loop"
    /\ dist < len /\ dist < SzU64
    /\ LET m1 == copy_8_bytes(M, out, from)
           o1 == out + dist
           l1 == USub(len, dist)
       IN  IF l1 < SzU64
           THEN TailCall("set_bytes", m1, o1, from, dist, l1)
           ELSE TailCall("chunk_memset_loop", m1, o1, from, dist, l1)

\* Mutant of chunk_memset_loop: no  if (len < sz) return set_bytes(...).
chunk_memset_loop_notail ==
    /\ pc = "chunk_memset_loop"
    /\ dist < len /\ dist < SzU64
    /\ TailCall("chunk_memset_loop", copy_8_bytes(M, out, from),
                out + dist, from, dist + dist, USub(len, dist))

\* One iteration of while (dist < len && dist < sz)
chunk_memset_loop ==
    /\ pc = "chunk_memset_loop"
    /\ dist < len /\ dist < SzU64
    /\ LET m1 == copy_8_bytes(M, out, from)
           o1 == out + dist
           l1 == USub(len, dist)
           d1 == dist + dist
       IN  IF l1 < SzU64
           THEN TailCall("set_bytes", m1, o1, from, d1, l1)
           ELSE TailCall("chunk_memset_loop", m1, o1, from, d1, l1)

\* The loop condition is false: return chunk_memcpy(out, from, len);
chunk_memset_exit ==
    /\ pc = "chunk_memset_loop"
    /\ ~(dist < len /\ dist < SzU64)
    /\ TailCall("chunk_memcpy", M, out, from, dist, len)

(***************************************************************************)
(* chunk_copy(out, from, dist, len)                                        *)
(***************************************************************************)
\* Mutant of chunk_copy: with dist = 0 every len goes to chunk_memcpy.
chunk_copy_noshort ==
    /\ pc = "chunk_copy"
    /\ IF len < SzU64 /\ dist > 0
       THEN TailCall("set_bytes", M, out, from, dist, len)
       ELSE IF dist = 1
            THEN TailCall("byte_memset", M, out, from, dist, len)
            ELSE IF dist > 0
                 THEN TailCall("chunk_memset", M, out, from, dist, len)
                 ELSE TailCall("chunk_memcpy", M, out, from, dist, len)

chunk_copy ==
    /\ pc = "chunk_copy"
    /\ IF len < SzU64
       THEN IF dist > 0
            THEN TailCall("set_bytes", M, out, from, dist, len)
            ELSE TailCall("copy_bytes", M, out, from, dist, len)
       ELSE IF dist = 1
            THEN TailCall("byte_memset", M, out, from, dist, len)
            ELSE IF dist > 0
                 THEN TailCall("chunk_memset", M, out, from, dist, len)
                 ELSE TailCall("chunk_memcpy", M, out, from, dist, len)

(***************************************************************************)
(* fast_copy(out, from, len) and safe_copy(out, from, len)                 *)
(***************************************************************************)
\* Mutant of fast_copy: no  if (len < sizeof(uint64_t)) return copy_bytes(...).
fast_copy_noshort ==
    /\ pc = "fast_copy"
    /\ IF sse2 /\ ~(len < SzM128)
       THEN TailCall("chunk_memcpy_16", M, out, from, dist, len)
       ELSE TailCall("chunk_memcpy", M, out, from, dist, len)

fast_copy ==
    /\ pc = "fast_copy"
    /\ IF len < SzU64
       THEN TailCall("copy_bytes", M, out, from, dist, len)
       ELSE IF sse2
            THEN IF len < SzM128
                 THEN TailCall("chunk_memcpy", M, out, from, dist, len)
                 ELSE TailCall("chunk_memcpy_16", M, out, from, dist, len)
            ELSE TailCall("chunk_memcpy", M, out, from, dist, len)

\* Mutant of safe_copy_sz: the scalar width in every build.
safe_copy_sz_scalar == SzU64

\* The chunk width safe_copy compares the distance with
safe_copy_sz == IF sse2 THEN SzM128 ELSE SzU64

safe_copy ==
    /\ pc = "safe_copy"
    /\ IF Abs(from - out) < safe_copy_sz
       THEN Return(byte_loop(M, out, from, len), out + len)
       ELSE TailCall("fast_copy", M, out, from, dist, len)

(***************************************************************************)
(* The calls the model makes.                                              *)
(***************************************************************************)
Call(fn, f, d, l) == [fn |-> fn, out |-> OutBase, from |-> f, dist |-> d, len |-> l]

\* chunk_copy: the source is the dist bytes before out when dist > 0, and a
\* range disjoint from the destination, before or after it, when dist = 0.
DisjointSources(l) ==
    {OutBase - l - g : g \in 0 .. MaxGap} \cup {OutBase + l + g : g \in 0 .. MaxGap}

ChunkCopyCalls ==
    {Call("chunk_copy", OutBase - d, d, l) : d \in 1 .. MaxDist, l \in 0 .. MaxLen}
    \cup UNION {{Call("chunk_copy", f, 0, l) : f \in DisjointSources(l)} : l \in 0 .. MaxLen}

\* set_bytes called directly, with a len it accepts
SetBytesCalls ==
    {Call("set_bytes", OutBase - d, d, l) : d \in 1 .. (ShortLimit - 1), l \in 0 .. (ShortLimit - 1)}
    \cup UNION {{Call("set_bytes", f, 0, l) : f \in DisjointSources(l)} : l \in 0 .. (ShortLimit - 1)}

\* byte_memset called directly, with a len it accepts
ByteMemsetCalls ==
    {Call("byte_memset", OutBase - 1, 1, l) : l \in SzU64 .. MaxLen}

\* safe_copy: the placements of the two ranges around each chunk width
Deltas ==
    {d \in (-MaxDelta) .. MaxDelta :
        Abs(d) \in {0, 1, SzU64 - 1, SzU64, SzM128 - 1, SzM128, MaxDelta}}

SafeCopyCalls ==
    {Call("safe_copy", OutBase + d, 0, l) : d \in Deltas, l \in 0 .. MaxCopyLen}

\* chunk_copy, set_bytes and byte_memset compile to the same code with and
\* without __SSE2__: those calls are made in the build without it.
Init ==
    /\ unaligned_ok \in BOOLEAN
    /\ sse2 \in BOOLEAN
    /\ ndebug \in BOOLEAN
    /\ args \in ChunkCopyCalls \cup SetBytesCalls \cup ByteMemsetCalls \cup SafeCopyCalls
    /\ sse2 => args.fn = "safe_copy"
    /\ pc = args.fn
    /\ out = args.out
    /\ from = args.from
    /\ dist = args.dist
    /\ len = args.len
    /\ mem = InitMem
    /\ written = {}

Next ==
    \/ chunk_copy
    \/ set_bytes
    \/ copy_bytes
    \/ byte_memset
    \/ byte_memset_loop
    \/ byte_memset_return
    \/ chunk_memset
    \/ chunk_memset_loop
    \/ chunk_memset_exit
    \/ chunk_memcpy
    \/ chunk_memcpy_loop
    \/ chunk_memcpy_return
    \/ chunk_memcpy_16
    \/ chunk_memcpy_16_loop
    \/ chunk_memcpy_16_return
    \/ fast_copy
    \/ safe_copy

Spec == Init /\ [][Next]_vars

\* The calls of chunk_copy alone.  A call runs on its caller's thread and
\* is never suspended: a step that can be taken is taken.
ChunkCopyInit == Init /\ args.fn = "chunk_copy"

ChunkCopyNext ==
    \/ chunk_copy
    \/ set_bytes
    \/ copy_bytes
    \/ byte_memset
    \/ byte_memset_loop
    \/ byte_memset_return
    \/ chunk_memset
    \/ chunk_memset_loop
    \/ chunk_memset_exit
    \/ chunk_memcpy
    \/ chunk_memcpy_loop
    \/ chunk_memcpy_return

ChunkCopyFairSpec == ChunkCopyInit /\ [][ChunkCopyNext]_vars /\ WF_vars(ChunkCopyNext)

TypeOK ==
    /\ mem \in [Addr -> Byte]
    /\ written \subseteq Addr
    /\ out \in Addr /\ from \in Addr

(***************************************************************************)
(* The properties.  out0, from0, dist0, len0 are the arguments of the      *)
(* call being made.                                                        *)
(***************************************************************************)
out0 == args.out
from0 == args.from
dist0 == args.dist
len0 == args.len
Dest == out0 .. (out0 + len0 - 1)

\* The chunk width of the build
ChunkWidth == IF sse2 THEN SzM128 ELSE SzU64

\* Byte i of the dist0-byte pattern that preceded out when the call started
Pattern(i) == InitMem[out0 - dist0 + (i % dist0)]

\* The source range [from0, from0 + len0) misses the destination range
Disjoint == from0 + len0 <= out0 \/ out0 + len0 <= from0

\* C1: chunk_copy(out, out - dist, dist, len) with len >= 8 and 1 < dist < len
\* trips no assertion and returns out + len with out[i] = P[i mod dist] for
\* every i < len, P being the dist bytes that preceded out.
C1_BackReferenceExpansion ==
    (args.fn = "chunk_copy" /\ len0 >= 8 /\ 1 < dist0 /\ dist0 < len0) =>
        /\ pc # "abort"
        /\ pc = "done" =>
            /\ out = out0 + len0
            /\ \A i \in 0 .. (len0 - 1) : mem[out0 + i] = Pattern(i)

\* The call chunk_copy(out, out - 4, 4, 11) has returned, the destination
\* holding A,B,C,D,A,B,C,D,A,B,C.
C1_Witness ==
    /\ pc = "done"
    /\ args.fn = "chunk_copy" /\ dist0 = 4 /\ len0 = 11
    /\ LET P == [i \in 0 .. 3 |-> InitMem[out0 - 4 + i]]
       IN  [i \in 0 .. 10 |-> mem[out0 + i]] =
             [i \in 0 .. 10 |-> <<P[0], P[1], P[2], P[3], P[0], P[1], P[2], P[3], P[0], P[1], P[2]>>[i + 1]]

\* C2: byte_memset(out, len) with len >= 8, called directly or by chunk_copy
\* with dist = 1, trips no assertion and leaves out[0 .. len-1] all equal to
\* the byte that was at out[-1].
C2_RunFill ==
    ((args.fn = "byte_memset" \/ (args.fn = "chunk_copy" /\ dist0 = 1)) /\ len0 >= 8) =>
        /\ pc # "abort"
        /\ pc = "done" => \A i \in 0 .. (len0 - 1) : mem[out0 + i] = InitMem[out0 - 1]

\* C3: set_bytes(out, out - dist, dist, len) with dist in 1..7 and
\* dist <= len < 8 trips no assertion and leaves out[i] = P[i mod dist] for
\* every i < len, with and without UNALIGNED_OK.
C3_ShortPatternReplication ==
    (args.fn = "set_bytes" /\ dist0 \in 1 .. 7 /\ dist0 <= len0 /\ len0 < 8) =>
        /\ pc # "abort"
        /\ pc = "done" => \A i \in 0 .. (len0 - 1) : mem[out0 + i] = Pattern(i)

\* set_bytes(out, out - 3, 3, 7) has returned from the switch variant with
\* the pattern repeated into the seventh byte.
C3_Witness ==
    /\ pc = "done"
    /\ args.fn = "set_bytes" /\ dist0 = 3 /\ len0 = 7 /\ unaligned_ok
    /\ mem[out0 + 6] = InitMem[out0 - 3]

\* C4: chunk_copy with dist = 0 or dist >= len, and a source range disjoint
\* from the destination, trips no assertion and leaves out[0 .. len-1] equal
\* to the original from[0 .. len-1].
C4_NonOverlapEquivalence ==
    (args.fn = "chunk_copy" /\ (dist0 = 0 \/ dist0 >= len0) /\ Disjoint) =>
        /\ pc # "abort"
        /\ pc = "done" => \A i \in 0 .. (len0 - 1) : mem[out0 + i] = InitMem[from0 + i]

\* A plain copy of more than 64 bytes, not a multiple of 8, has returned
\* from chunk_memcpy with its last byte in place.
C4_Witness ==
    /\ pc = "done"
    /\ args.fn = "chunk_copy" /\ dist0 = 0 /\ len0 > Unroll * SzU64 /\ len0 % SzU64 # 0
    /\ mem[out0 + len0 - 1] = InitMem[from0 + len0 - 1]

\* C5: the step safe_copy takes.  With |from - out| below the chunk width it
\* returns out + len having changed only out[0 .. len-1], to what a
\* left-to-right byte copy leaves there: the source bytes when from >= out,
\* and the out - from bytes before out repeated when from < out.  Otherwise
\* it hands the same out, from, len and the untouched memory to fast_copy.
C5_SafeCopyStep ==
    pc = "safe_copy" =>
        IF Abs(from - out) < ChunkWidth
        THEN /\ pc' = "done"
             /\ out' = out + len
             /\ \A a \in Addr :
                  mem'[a] = IF a >= out /\ a < out + len
                            THEN IF from >= out THEN mem[from + (a - out)]
                                 ELSE mem[from + ((a - out) % (out - from))]
                            ELSE mem[a]
        ELSE /\ pc' = "fast_copy"
             /\ UNCHANGED <<out, from, len, mem>>

C5_SafeCopyAliasing == [][C5_SafeCopyStep]_vars

\* safe_copy has returned from its byte loop for a source 7 bytes before the
\* destination in the vector build, the pattern repeated to the last byte.
C5_Witness ==
    /\ pc = "done"
    /\ args.fn = "safe_copy" /\ sse2 /\ from0 = out0 - 7 /\ len0 = 20
    /\ mem[out0 + 19] = InitMem[from0 + 5]

\* C6: in a call of chunk_copy or safe_copy (and so of the fast_copy that
\* safe_copy calls) no byte at out + len + (chunk width - 1) or beyond is
\* ever written.
C6_OvershootContainment ==
    args.fn \in {"chunk_copy", "safe_copy"} =>
        \A a \in written : a < out0 + len0 + (ChunkWidth - 1)

\* A call that went through fast_copy to chunk_memcpy_16 has returned having
\* written its last byte.
C6_Witness ==
    /\ pc = "done"
    /\ args.fn = "safe_copy" /\ sse2 /\ len0 > SzM128 /\ len0 % SzM128 # 0
    /\ Abs(from0 - out0) >= SzM128
    /\ (out0 + len0 - 1) \in written

\* The (dist, len) pairs with dist < len that an assertion of set_bytes accepts
Accepted(d, l) ==
    \/ d = 6 /\ l = 7
    \/ d = 5 /\ l \in 6 .. 7
    \/ d = 4 /\ l \in 5 .. 7
    \/ d = 3 /\ l \in 4 .. 7
    \/ d = 2 /\ l \in 3 .. 7
    \/ d = 1 /\ l \in 2 .. 7

\* C7: set_bytes called with len < 8, dist < len and a (dist, len) pair that
\* no assertion accepts never returns normally with fewer than len bytes
\* written or with a cursor other than out + len.
C7_UnsupportedPairNotSilent ==
    (args.fn = "set_bytes" /\ len0 < 8 /\ dist0 < len0 /\ ~Accepted(dist0, len0) /\ pc = "done") =>
        /\ out = out0 + len0
        /\ Dest \subseteq written

\* The calls C8 is about
C8_Domain == args.fn = "chunk_copy" /\ len0 >= 8 /\ 1 < dist0 /\ dist0 < len0

\* An iteration of the doubling loop subtracts without underflow, increases
\* dist and decreases len.
C8_IterationStep ==
    (C8_Domain /\ pc = "chunk_memset_loop" /\ pc' \in {"chunk_memset_loop", "set_bytes"}) =>
        /\ dist <= len
        /\ dist' > dist
        /\ len' < len

\* C8: for len >= 8 and 1 < dist < len every iteration of the doubling loop
\* of chunk_memset increases dist and decreases len without underflow, the
\* loop is left for set_bytes or chunk_memcpy, and the call returns.
C8_DoublingTermination ==
    /\ [][C8_IterationStep]_vars
    /\ (C8_Domain /\ pc = "chunk_memset_loop") ~> (pc \in {"set_bytes", "chunk_memcpy"})
    /\ C8_Domain ~> (pc = "done")

\* chunk_copy with dist = 2 has left the doubling loop for chunk_memcpy
\* after dist grew to the chunk width.
C8_Witness ==
    /\ pc = "chunk_memcpy"
    /\ args.fn = "chunk_copy" /\ dist0 = 2 /\ dist = SzU64 /\ len = len0 - 6 /\ len0 = MaxLen

\* C9: in calls of chunk_copy and safe_copy (and the fast_copy it calls)
\* chunk_memcpy, byte_memset and chunk_memset are entered with len >= 8,
\* chunk_memcpy_16 with len >= 16, copy_bytes and set_bytes with len < 8, and
\* set_bytes with dist < len only with a (dist, len) pair its assertions
\* accept.
C9_RoutingPreconditions ==
    args.fn \in {"chunk_copy", "safe_copy"} =>
        /\ pc \in {"chunk_memcpy", "byte_memset", "chunk_memset"} => len >= 8
        /\ pc = "chunk_memcpy_16" => len >= 16
        /\ pc \in {"copy_bytes", "set_bytes"} => len < 8
        /\ (pc = "set_bytes" /\ dist < len) => Accepted(dist, len)

\* chunk_memset calls set_bytes with a doubled dist that is still below len.
C9_Witness ==
    /\ pc = "set_bytes"
    /\ args.fn = "chunk_copy" /\ dist0 = 3 /\ dist = 6 /\ len = 7

\* C10: in a call of chunk_copy only out[0 .. len-1] is stored to, and every
\* other byte keeps its value.
C10_ExactWriteFootprint ==
    args.fn = "chunk_copy" =>
        /\ written \subseteq Dest
        /\ \A a \in Addr \ Dest : mem[a] = InitMem[a]

\* chunk_memset has returned through chunk_memcpy having stored to exactly
\* out[0 .. len-1], for a len that is no multiple of 8.
C10_Witness ==
    /\ pc = "done"
    /\ args.fn = "chunk_copy" /\ dist0 = 3 /\ len0 = 29
    /\ written = Dest

====
